---- MODULE Spec2Model ----
(***************************************************************************)
(* A model of playsound3.py: the playback dispatcher (playsound), the      *)
(* path resolver with its download cache (_prepare_path), the default      *)
(* backend selection (_initialize_default_backend, _select_linux_backend)  *)
(* and the at-exit teardown (_remove_cached_downloads).                    *)
(*                                                                         *)
(* A string that names a file or a URL is a record                         *)
(*   [root, stem, n, suffix]                                               *)
(* root "http://" or "https://" for a URL, "" for a relative path, "/cwd/" *)
(* for a path under the working directory, "/tmp/" for a temporary file;   *)
(* n numbers the temporary files NamedTemporaryFile hands out.             *)
(***************************************************************************)
EXTENDS Integers, Sequences, FiniteSets, TLC

\* ------------------------------------------------------------------ bounds
NumThreads == 2
MaxCalls == 2

Threads == 1..NumThreads

\* the interpreter's main thread; the other threads that call playsound are
\* daemon or not
MainThread == CHOOSE t \in Threads : \A u \in Threads : t <= u

\* --------------------------------------------------------------- the data
None == "None"

UrlA == [root |-> "https://", stem |-> "h/a", n |-> 0, suffix |-> ".wav"]
UrlB == [root |-> "http://", stem |-> "h/b", n |-> 0, suffix |-> ".mp3"]
LocalOk == [root |-> "", stem |-> "ok", n |-> 0, suffix |-> ".ogg"]
LocalMissing == [root |-> "", stem |-> "missing", n |-> 0, suffix |-> ".wav"]

Urls == {UrlA, UrlB}
Sounds == {UrlA, UrlB, LocalOk, LocalMissing}

\* sound.startswith(("http://", "https://"))
IsUrl(sound) == sound.root \in {"http://", "https://"}

\* Path(sound).suffix
PathSuffix(sound) == sound.suffix

\* Path(sound).absolute(): a relative path is joined to the working directory
Absolute(p) == IF p.root = "" THEN [p EXCEPT !.root = "/cwd/"] ELSE p

\* NamedTemporaryFile(delete=False, prefix="playsound3-", suffix=sound_suffix).name
TempName(k, sfx) == [root |-> "/tmp/", stem |-> "playsound3-", n |-> k, suffix |-> sfx]

\* the files of the host before the process starts
InitialDisk == {Absolute(LocalOk)}

\* Path(sound).exists()
Exists(files, p) == Absolute(p) \in files

\* _BACKEND_MAPPING: backend name -> Player
BACKEND_MAPPING ==
    [afplay |-> "_playsound_afplay",
     alsa_mpg123 |-> "_playsound_alsa",
     ffplay |-> "_playsound_ffplay",
     gst_play |-> "_playsound_gst_play",
     gst_legacy |-> "_playsound_gst_legacy",
     mci_winmm |-> "_playsound_mci_winmm"]

\* AVAILABLE_BACKENDS = list(_BACKEND_MAPPING.keys()), in insertion order
AVAILABLE_BACKENDS ==
    <<"afplay", "alsa_mpg123", "ffplay", "gst_play", "gst_legacy", "mci_winmm">>

Players == {BACKEND_MAPPING[b] : b \in DOMAIN BACKEND_MAPPING}

\* the backend arguments the callers pass: omitted, registered, not registered
BackendArgs == {None, "gst_legacy", "vlc"}

Systems == {"Windows", "Darwin", "Linux"}

\* the three tools _select_linux_backend probes and what a version query does:
\* "ok" exits 0, "nonzero" is launched and exits non-zero, "absent" cannot be
\* launched
ProbeTools == {"gst-play-1.0", "ffplay", "aplay"}
ToolStates == {"ok", "nonzero", "absent"}
Envs == [ProbeTools -> ToolStates]

\* what a Player's external invocation does
ProcOutcomes == {"ok", "nonzero", "absent"}

\* how a run of a Player can go on its host
PlayerOutcomes(player) ==
    IF player = "_playsound_gst_legacy" THEN ProcOutcomes \cup {"nogst"}
    ELSE ProcOutcomes


NoEnv == [tl \in ProbeTools |-> "absent"]

NoPath == [root |-> "", stem |-> "", n |-> 0, suffix |-> ""]

\* the exceptions the module lets escape
ExcUnknownBackend == "PlaysoundException: Unknown backend"
ExcNoBackend == "PlaysoundException: No suitable audio backend found"
ExcFileNotFound == "PlaysoundException: File not found"
ExcUnsupported == "PlaysoundException: Backend not supported"
ExcGstLegacy == "PlaysoundException: gst_legacy"
ExcCalledProcess == "CalledProcessError"
ExcToolNotFound == "FileNotFoundError"
ExcImport == "ImportError"
ExcDownload == "URLError"
ExcRemove == "OSError"
ExcValue == "ValueError"
ExcRuntime == "RuntimeError: dictionary changed size during iteration"
ExcThread == "RuntimeError: can't create new thread at interpreter shutdown"

\* ------------------------------------------------- the default backend
\* select_linux_backend with the first two try blocks swapped
select_linux_backend_FfplayFirst(env) ==
    IF env["ffplay"] = "ok"
    THEN [probed |-> <<"ffplay">>, ret |-> "_playsound_ffplay", exc |-> None]
    ELSE IF env["ffplay"] = "nonzero"
    THEN [probed |-> <<"ffplay">>, ret |-> None, exc |-> ExcCalledProcess]
    ELSE IF env["gst-play-1.0"] = "ok"
    THEN [probed |-> <<"ffplay", "gst-play-1.0">>, ret |-> "_playsound_gst_play",
          exc |-> None]
    ELSE IF env["gst-play-1.0"] = "nonzero"
    THEN [probed |-> <<"ffplay", "gst-play-1.0">>, ret |-> None, exc |-> ExcCalledProcess]
    ELSE IF env["aplay"] = "ok"
    THEN [probed |-> <<"ffplay", "gst-play-1.0", "aplay">>, ret |-> "_playsound_alsa",
          exc |-> None]
    ELSE IF env["aplay"] = "nonzero"
    THEN [probed |-> <<"ffplay", "gst-play-1.0", "aplay">>, ret |-> None,
          exc |-> ExcCalledProcess]
    ELSE [probed |-> <<"ffplay", "gst-play-1.0", "aplay">>, ret |-> None,
          exc |-> ExcNoBackend]

\* select_linux_backend returning the last candidate instead of raising when
\* no tool was found
select_linux_backend_FallbackAlsa(env) ==
    IF env["gst-play-1.0"] = "ok"
    THEN [probed |-> <<"gst-play-1.0">>, ret |-> "_playsound_gst_play", exc |-> None]
    ELSE IF env["gst-play-1.0"] = "nonzero"
    THEN [probed |-> <<"gst-play-1.0">>, ret |-> None, exc |-> ExcCalledProcess]
    ELSE IF env["ffplay"] = "ok"
    THEN [probed |-> <<"gst-play-1.0", "ffplay">>, ret |-> "_playsound_ffplay", exc |-> None]
    ELSE IF env["ffplay"] = "nonzero"
    THEN [probed |-> <<"gst-play-1.0", "ffplay">>, ret |-> None, exc |-> ExcCalledProcess]
    ELSE IF env["aplay"] = "nonzero"
    THEN [probed |-> <<"gst-play-1.0", "ffplay", "aplay">>, ret |-> None,
          exc |-> ExcCalledProcess]
    ELSE [probed |-> <<"gst-play-1.0", "ffplay", "aplay">>, ret |-> "_playsound_alsa",
          exc |-> None]

\* _select_linux_backend: three try blocks in a row; run(..., check=True)
\* raises FileNotFoundError for a tool that cannot be launched (caught, the
\* next block runs) and CalledProcessError for one that exits non-zero (not
\* caught).  probed lists the version queries that were launched or tried.
select_linux_backend(env) ==
    IF env["gst-play-1.0"] = "ok"
    THEN [probed |-> <<"gst-play-1.0">>, ret |-> "_playsound_gst_play", exc |-> None]
    ELSE IF env["gst-play-1.0"] = "nonzero"
    THEN [probed |-> <<"gst-play-1.0">>, ret |-> None, exc |-> ExcCalledProcess]
    ELSE IF env["ffplay"] = "ok"
    THEN [probed |-> <<"gst-play-1.0", "ffplay">>, ret |-> "_playsound_ffplay", exc |-> None]
    ELSE IF env["ffplay"] = "nonzero"
    THEN [probed |-> <<"gst-play-1.0", "ffplay">>, ret |-> None, exc |-> ExcCalledProcess]
    ELSE IF env["aplay"] = "ok"
    THEN [probed |-> <<"gst-play-1.0", "ffplay", "aplay">>, ret |-> "_playsound_alsa",
          exc |-> None]
    ELSE IF env["aplay"] = "nonzero"
    THEN [probed |-> <<"gst-play-1.0", "ffplay", "aplay">>, ret |-> None,
          exc |-> ExcCalledProcess]
    ELSE [probed |-> <<"gst-play-1.0", "ffplay", "aplay">>, ret |-> None,
          exc |-> ExcNoBackend]

\* _initialize_default_backend: the value it assigns (ret), or the exception
\* that leaves the global as it was
initialize_default_backend(system, env) ==
    IF system = "Windows"
    THEN [probed |-> <<>>, ret |-> "_playsound_mci_winmm", exc |-> None]
    ELSE IF system = "Darwin"
    THEN [probed |-> <<>>, ret |-> "_playsound_afplay", exc |-> None]
    ELSE select_linux_backend(env)

\* line 17 without its test: every call selects again
NeedsInit_Always(default) == TRUE

\* playsound, line 17: if _PLAYSOUND_DEFAULT_BACKEND is None
NeedsInit(default) == default = None

\* a playsound that plays an unknown backend name with the default Player
resolve_backend_FallbackDefault(backend, default) ==
    IF backend \in DOMAIN BACKEND_MAPPING
    THEN [play |-> BACKEND_MAPPING[backend], exc |-> None, names |-> <<>>]
    ELSE [play |-> default, exc |-> None, names |-> <<>>]

\* playsound, lines 20-25: the Player to use, or the exception
resolve_backend(backend, default) ==
    IF backend = None
    THEN [play |-> default, exc |-> None, names |-> <<>>]
    ELSE IF backend \in DOMAIN BACKEND_MAPPING
    THEN [play |-> BACKEND_MAPPING[backend], exc |-> None, names |-> <<>>]
    ELSE [play |-> None, exc |-> ExcUnknownBackend, names |-> AVAILABLE_BACKENDS]

\* ------------------------------------------------- the download cache
\* _DOWNLOAD_CACHE is a dict: a sequence of [key, value] in insertion order
CacheHas(cache, k) == \E i \in 1..Len(cache) : cache[i].key = k

CacheGet(cache, k) == cache[CHOOSE i \in 1..Len(cache) : cache[i].key = k].value

CacheSet(cache, k, v) ==
    IF CacheHas(cache, k)
    THEN [i \in 1..Len(cache) |->
            IF cache[i].key = k THEN [key |-> k, value |-> v] ELSE cache[i]]
    ELSE Append(cache, [key |-> k, value |-> v])

CacheValues(cache) == [i \in 1..Len(cache) |-> cache[i].value]

Range(s) == {s[i] : i \in 1..Len(s)}

\* lines 51-52 without the cache test: every URL request downloads
CacheMiss_AlwaysDownload(cache, sound) == IsUrl(sound)

\* _prepare_path, lines 51-52: a URL that is not in the cache
CacheMiss(cache, sound) == IsUrl(sound) /\ ~CacheHas(cache, sound)

\* _remove_cached_downloads, one turn of `for path in cache.values():
\* remove(path)`: i is the place of the iterator in the live dict and size
\* the dict's size when the iterator was made.  The iterator raises when the
\* size has changed, ends after the last entry, and remove raises for a file
\* that is not there or that the host refuses to delete (fail); an exception
\* ends the loop.
remove_next(cache, files, i, size, fail) ==
    IF Len(cache) # size
    THEN [files |-> files, log |-> <<>>, exc |-> ExcRuntime, done |-> TRUE]
    ELSE IF i > Len(cache)
    THEN [files |-> files, log |-> <<>>, exc |-> None, done |-> TRUE]
    ELSE IF fail \/ cache[i].value \notin files
    THEN [files |-> files, log |-> <<[path |-> cache[i].value, ok |-> FALSE]>>,
          exc |-> ExcRemove, done |-> TRUE]
    ELSE [files |-> files \ {cache[i].value},
          log |-> <<[path |-> cache[i].value, ok |-> TRUE]>>,
          exc |-> None, done |-> FALSE]

\* ------------------------------------------------------------ the Players
\* What a Player does for an outcome of its host: invoked, all it started;
\* exc, what it raises; waits, whether it got to wait for the playback to
\* end, and launched, what it had started by then.
\* subprocess.run([tool, ...], check=True): the tool cannot be launched
\* ("absent"), or it runs and exits with status zero or not
RunChecked(tool, outcome) ==
    [invoked |-> <<tool>>,
     exc |-> IF outcome = "ok" THEN None
             ELSE IF outcome = "nonzero" THEN ExcCalledProcess
             ELSE ExcToolNotFound,
     waits |-> outcome # "absent",
     launched |-> <<tool>>]

playsound_gst_play(sound, outcome) == RunChecked("gst-play-1.0", outcome)

playsound_ffplay(sound, outcome) == RunChecked("ffplay", outcome)

playsound_afplay(sound, outcome) == RunChecked("afplay", outcome)

\* an ALSA Player that hands every file to aplay
playsound_alsa_AplayOnly(sound, outcome) == RunChecked("aplay", outcome)

playsound_alsa(sound, outcome) ==
    IF PathSuffix(sound) = ".wav" THEN RunChecked("aplay", outcome)
    ELSE IF PathSuffix(sound) = ".mp3" THEN RunChecked("mpg123", outcome)
    ELSE [invoked |-> <<>>, exc |-> ExcUnsupported, waits |-> FALSE,
          launched |-> <<>>]

\* "absent": gi, or Gst from gi.repository, cannot be imported (lines
\* 121-124, 129-133); "nogst": gi.require_version finds no Gst namespace and
\* raises ValueError (line 127, outside both try blocks); "nonzero":
\* set_state does not return ASYNC (lines 140-142); "ok": bus.poll waits for
\* the end of the stream
playsound_gst_legacy(sound, outcome) ==
    [invoked |-> <<>>,
     exc |-> IF outcome = "ok" THEN None
             ELSE IF outcome = "nogst" THEN ExcValue
             ELSE ExcGstLegacy,
     waits |-> outcome = "ok",
     launched |-> <<>>]

\* _send_winmm_mci_command logs a non-zero MCI error code and returns; the
\* three commands are sent whatever the codes were, and `play ... wait` waits
\* for the playback.  "absent": WinDLL cannot be imported or loaded.
playsound_mci_winmm(sound, outcome) ==
    IF outcome = "absent"
    THEN [invoked |-> <<>>, exc |-> ExcImport, waits |-> FALSE, launched |-> <<>>]
    ELSE [invoked |-> <<"mci open", "mci play", "mci close">>, exc |-> None,
          waits |-> TRUE, launched |-> <<"mci open", "mci play">>]

\* _play(path)
PlayerRun(player, sound, outcome) ==
    CASE player = "_playsound_gst_play" -> playsound_gst_play(sound, outcome)
      [] player = "_playsound_ffplay" -> playsound_ffplay(sound, outcome)
      [] player = "_playsound_afplay" -> playsound_afplay(sound, outcome)
      [] player = "_playsound_alsa" -> playsound_alsa(sound, outcome)
      [] player = "_playsound_gst_legacy" -> playsound_gst_legacy(sound, outcome)
      [] player = "_playsound_mci_winmm" -> playsound_mci_winmm(sound, outcome)

\* ------------------------------------------------------------- the state
VARIABLES
    SYSTEM,                     \* _SYSTEM = platform.system()
    PLAYSOUND_DEFAULT_BACKEND,  \* _PLAYSOUND_DEFAULT_BACKEND
    DOWNLOAD_CACHE,             \* _DOWNLOAD_CACHE
    disk,                       \* the files that exist on the host
    nextTmp,                    \* temporary files created so far
    pc,                         \* where each calling thread is in playsound
    call,                       \* the arguments of each thread's current or last call
    play,                       \* playsound's local _play
    tmp,                        \* _prepare_path's local f.name
    result,                     \* how each thread's current or last call ended
    tasks,                      \* the Threads playsound started, by handle
    ncalls,                     \* playsound calls made so far
    hook,                       \* the at-exit hook's place in its loop (i = 0: not in it)
    finalizing,                 \* the main thread has ended and the interpreter shuts down
    exited,                     \* the module's at-exit hook has run and ended
    rmLog,                      \* the remove() calls of the at-exit hook
    hookExc,                    \* the exception that ended the at-exit hook
    dlCount,                    \* completed downloads per URL
    everCached,                 \* every value ever stored in _DOWNLOAD_CACHE
    failures                    \* the selections, the downloads and the Players run
                                \* by a caller (with the backend argument) that failed:
                                \* now since the latest call was entered, last between
                                \* the call before it and that

vars == <<SYSTEM, PLAYSOUND_DEFAULT_BACKEND, DOWNLOAD_CACHE, disk, nextTmp, pc, call,
          play, tmp, result, tasks, ncalls, finalizing, hook, exited, rmLog, hookExc,
          dlCount, everCached, failures>>

NoHook == [i |-> 0, size |-> 0]

NoFailures == [last |-> {}, now |-> {}]

\* the failures fs of a call are recorded
Failed(f, fs) == [f EXCEPT !.now = @ \cup fs]

NoCall == [sound |-> NoPath, block |-> TRUE, backend |-> None]

\* sel: what the call's run of _initialize_default_backend saw and did;
\* runs: the calls of _play made in the caller's thread; outcome: how the
\* Player's process or library call ended
NoSel == [env |-> NoEnv, probed |-> <<>>, ret |-> None, exc |-> None]

NoResult == [status |-> "none", exc |-> None, names |-> <<>>, handle |-> 0,
             path |-> NoPath, player |-> None, invoked |-> <<>>,
             initialized |-> FALSE, sel |-> NoSel, downloaded |-> FALSE,
             runs |-> 0, outcome |-> None]

Init ==
    /\ SYSTEM \in Systems
    /\ PLAYSOUND_DEFAULT_BACKEND = None
    /\ DOWNLOAD_CACHE = <<>>
    /\ disk = InitialDisk
    /\ nextTmp = 0
    /\ pc = [t \in Threads |-> "idle"]
    /\ call = [t \in Threads |-> NoCall]
    /\ play = [t \in Threads |-> None]
    /\ tmp = [t \in Threads |-> NoPath]
    /\ result = [t \in Threads |-> NoResult]
    /\ tasks = <<>>
    /\ ncalls = 0
    /\ hook = NoHook
    /\ finalizing = FALSE
    /\ exited = FALSE
    /\ rmLog = <<>>
    /\ hookExc = None
    /\ dlCount = [u \in Urls |-> 0]
    /\ everCached = {}
    /\ failures = NoFailures

Globals == <<SYSTEM, PLAYSOUND_DEFAULT_BACKEND, DOWNLOAD_CACHE, disk, nextTmp>>
Teardown == <<finalizing, hook, exited, rmLog, hookExc>>
Downloads == <<dlCount, everCached>>

Raised(r, exc, names) == [r EXCEPT !.status = "raised", !.exc = exc, !.names = names]

\* the call of thread t ends with the result res
Return(t, res) ==
    /\ pc' = [pc EXCEPT ![t] = "idle"]
    /\ result' = [result EXCEPT ![t] = res]
    /\ play' = [play EXCEPT ![t] = None]
    /\ tmp' = [tmp EXCEPT ![t] = NoPath]

\* playsound is entered: lines 14-17 (daemon only sets the flag of the Thread
\* of line 32)
playsound(t, sound, block, backend) ==
    /\ t = MainThread => hook.i = 0
    /\ pc[t] = "idle"
    /\ ncalls < MaxCalls
    /\ ncalls' = ncalls + 1
    /\ call' = [call EXCEPT ![t] = [sound |-> sound, block |-> block, backend |-> backend]]
    /\ result' = [result EXCEPT ![t] = [NoResult EXCEPT !.status = "running"]]
    /\ pc' = [pc EXCEPT ![t] =
                IF NeedsInit(PLAYSOUND_DEFAULT_BACKEND) THEN "init" ELSE "resolve"]
    /\ failures' = [last |-> failures.now, now |-> {}]
    /\ UNCHANGED <<Globals, play, tmp, tasks, Teardown, Downloads>>

\* _initialize_default_backend ends with r, on a host where the version
\* queries answer as env says: line 186, 188 or 190 assigns the global, or the
\* exception of _select_linux_backend leaves it as it is and ends playsound
initialized(t, env, r) ==
    LET res == [result[t] EXCEPT !.initialized = TRUE,
                                 !.sel = [env |-> env, probed |-> r.probed,
                                          ret |-> r.ret, exc |-> r.exc]]
    IN
    IF r.exc # None
    THEN /\ Return(t, Raised(res, r.exc, <<>>))
         /\ failures' = Failed(failures, {[exc |-> r.exc, sound |-> NoPath, player |-> None,
                                          backend |-> None]})
         /\ UNCHANGED PLAYSOUND_DEFAULT_BACKEND
    ELSE /\ PLAYSOUND_DEFAULT_BACKEND' = r.ret
         /\ pc' = [pc EXCEPT ![t] = "resolve"]
         /\ result' = [result EXCEPT ![t] = res]
         /\ UNCHANGED <<play, tmp, failures>>

\* playsound, line 18: _initialize_default_backend() is entered, on a host
\* where the version queries answer as env says.  On Windows and Darwin it
\* assigns at once; on Linux _select_linux_backend launches its first version
\* query and waits for it
initialize(t, env) ==
    /\ pc[t] = "init"
    /\ LET r == initialize_default_backend(SYSTEM, env) IN
        IF SYSTEM # "Linux"
        THEN initialized(t, env, r)
        ELSE /\ pc' = [pc EXCEPT ![t] = "probe"]
             /\ result' = [result EXCEPT ![t].sel =
                              [env |-> env, probed |-> SubSeq(r.probed, 1, 1),
                               ret |-> None, exc |-> None]]
             /\ UNCHANGED <<play, tmp, failures, PLAYSOUND_DEFAULT_BACKEND>>
    /\ UNCHANGED <<SYSTEM, DOWNLOAD_CACHE, disk, nextTmp, call, tasks, ncalls,
                   Teardown, Downloads>>

\* _select_linux_backend, lines 70-88: the version query that was launched
\* last has ended; the next one is launched, or the selection ends
probe(t) ==
    /\ pc[t] = "probe"
    /\ LET env == result[t].sel.env
           r == initialize_default_backend(SYSTEM, env)
           n == Len(result[t].sel.probed)
       IN
        IF n < Len(r.probed)
        THEN /\ result' = [result EXCEPT ![t].sel.probed = SubSeq(r.probed, 1, n + 1)]
             /\ UNCHANGED <<pc, play, tmp, failures, PLAYSOUND_DEFAULT_BACKEND>>
        ELSE initialized(t, env, r)
    /\ UNCHANGED <<SYSTEM, DOWNLOAD_CACHE, disk, nextTmp, call, tasks, ncalls,
                   Teardown, Downloads>>

\* playsound, lines 20-25: the Player of this call, or Unknown backend
resolve(t) ==
    /\ pc[t] = "resolve"
    /\ LET r == resolve_backend(call[t].backend, PLAYSOUND_DEFAULT_BACKEND) IN
        IF r.exc # None
        THEN Return(t, Raised(result[t], r.exc, r.names))
        ELSE /\ play' = [play EXCEPT ![t] = r.play]
             /\ pc' = [pc EXCEPT ![t] = "prepare"]
             /\ UNCHANGED <<tmp, result>>
    /\ UNCHANGED <<Globals, call, tasks, ncalls, Teardown, Downloads, failures>>

\* thread.start(), line 33: once the interpreter shuts down, whether a new
\* thread starts depends on the interpreter: CPython 3.12 and later refuse it
\* with RuntimeError, earlier ones start it
ThreadStarts == IF finalizing THEN BOOLEAN ELSE {TRUE}

\* a playsound that leaves File not found of a non-blocking call to its Thread
dispatch_DeferNotFound(t, sound, started) ==
    IF ~Exists(disk, sound) /\ call[t].block
    THEN /\ Return(t, Raised(result[t], ExcFileNotFound, <<>>))
         /\ UNCHANGED tasks
    ELSE IF call[t].block
    THEN /\ pc' = [pc EXCEPT ![t] = "play"]
         /\ result' = [result EXCEPT ![t].path = Absolute(sound), ![t].player = play[t]]
         /\ UNCHANGED <<play, tmp, tasks>>
    ELSE IF ~started
    THEN /\ Return(t, Raised([result[t] EXCEPT !.path = Absolute(sound),
                                               !.player = play[t]], ExcThread, <<>>))
         /\ UNCHANGED tasks
    ELSE /\ tasks' = Append(tasks, [player |-> play[t], path |-> Absolute(sound),
                                    status |-> IF Exists(disk, sound) THEN "running"
                                               ELSE "raised",
                                    exc |-> IF Exists(disk, sound) THEN None
                                            ELSE ExcFileNotFound,
                                    invoked |-> <<>>, runs |-> 0,
                                    outcome |-> None])
         /\ pc' = [pc EXCEPT ![t] = "started"]
         /\ result' = [result EXCEPT ![t].handle = Len(tasks) + 1,
                                     ![t].path = Absolute(sound),
                                     ![t].player = play[t]]
         /\ UNCHANGED <<play, tmp>>

\* a _prepare_path without the test of line 59
dispatch_SkipExists(t, sound, started) ==
    IF call[t].block
    THEN /\ pc' = [pc EXCEPT ![t] = "play"]
         /\ result' = [result EXCEPT ![t].path = Absolute(sound), ![t].player = play[t]]
         /\ UNCHANGED <<play, tmp, tasks>>
    ELSE IF ~started
    THEN /\ Return(t, Raised([result[t] EXCEPT !.path = Absolute(sound),
                                               !.player = play[t]], ExcThread, <<>>))
         /\ UNCHANGED tasks
    ELSE /\ tasks' = Append(tasks, [player |-> play[t], path |-> Absolute(sound),
                                    status |-> "running", exc |-> None,
                                    invoked |-> <<>>, runs |-> 0,
                                    outcome |-> None])
         /\ pc' = [pc EXCEPT ![t] = "started"]
         /\ result' = [result EXCEPT ![t].handle = Len(tasks) + 1,
                                     ![t].path = Absolute(sound),
                                     ![t].player = play[t]]
         /\ UNCHANGED <<play, tmp>>

\* _prepare_path, lines 59-62, then playsound, lines 28-33, for the string
\* sound: File not found, or the Player runs in the caller (block), or a new
\* Thread is created and started (lines 31-33).  The Thread runs from then
\* on, while thread.start() and playsound have yet to return.  When
\* thread.start() refuses (started is false) its RuntimeError leaves
\* playsound, which has no try/except, and no Thread runs.
dispatch(t, sound, started) ==
    IF ~Exists(disk, sound)
    THEN /\ Return(t, Raised(result[t], ExcFileNotFound, <<>>))
         /\ UNCHANGED tasks
    ELSE IF call[t].block
    THEN /\ pc' = [pc EXCEPT ![t] = "play"]
         /\ result' = [result EXCEPT ![t].path = Absolute(sound), ![t].player = play[t]]
         /\ UNCHANGED <<play, tmp, tasks>>
    ELSE IF ~started
    THEN /\ Return(t, Raised([result[t] EXCEPT !.path = Absolute(sound),
                                               !.player = play[t]], ExcThread, <<>>))
         /\ UNCHANGED tasks
    ELSE /\ tasks' = Append(tasks, [player |-> play[t], path |-> Absolute(sound),
                                    status |-> "running", exc |-> None,
                                    invoked |-> <<>>, runs |-> 0,
                                    outcome |-> None])
         /\ pc' = [pc EXCEPT ![t] = "started"]
         /\ result' = [result EXCEPT ![t].handle = Len(tasks) + 1,
                                     ![t].path = Absolute(sound),
                                     ![t].player = play[t]]
         /\ UNCHANGED <<play, tmp>>

\* _prepare_path, lines 51-54: a URL that is not cached gets a fresh temporary
\* file and its download starts; anything else goes on to lines 57-62
prepare(t) ==
    /\ pc[t] = "prepare"
    /\ IF CacheMiss(DOWNLOAD_CACHE, call[t].sound)
       THEN /\ nextTmp' = nextTmp + 1
            /\ tmp' = [tmp EXCEPT ![t] = TempName(nextTmp + 1, PathSuffix(call[t].sound))]
            /\ disk' = disk \cup {TempName(nextTmp + 1, PathSuffix(call[t].sound))}
            /\ pc' = [pc EXCEPT ![t] = "download"]
            /\ result' = [result EXCEPT ![t].downloaded = TRUE]
            /\ UNCHANGED <<play, tasks>>
       ELSE /\ \E started \in ThreadStarts :
                  dispatch(t, IF IsUrl(call[t].sound)
                              THEN CacheGet(DOWNLOAD_CACHE, call[t].sound)
                              ELSE call[t].sound, started)
            /\ UNCHANGED <<nextTmp, disk>>
    /\ UNCHANGED <<SYSTEM, PLAYSOUND_DEFAULT_BACKEND, DOWNLOAD_CACHE, call, ncalls,
                   Teardown, Downloads, failures>>

\* a _prepare_path that stores the cache entry before the download is known
\* to have worked
download_CacheOnFailure(t, ok) ==
    /\ pc[t] = "download"
    /\ DOWNLOAD_CACHE' = CacheSet(DOWNLOAD_CACHE, call[t].sound, tmp[t])
    /\ everCached' = everCached \cup {tmp[t]}
    /\ IF ok
       THEN /\ dlCount' = [dlCount EXCEPT ![call[t].sound] = @ + 1]
            /\ pc' = [pc EXCEPT ![t] = "lookup"]
            /\ UNCHANGED <<play, tmp, result, failures>>
       ELSE /\ Return(t, Raised(result[t], ExcDownload, <<>>))
            /\ failures' = Failed(failures, {[exc |-> ExcDownload, sound |-> call[t].sound,
                                          player |-> None, backend |-> None]})
            /\ UNCHANGED dlCount
    /\ UNCHANGED <<SYSTEM, PLAYSOUND_DEFAULT_BACKEND, disk, nextTmp, call, tasks,
                   ncalls, Teardown>>

\* _prepare_path, lines 55-56: _download_sound_from_web writes the file and
\* the cache entry is stored, or the download raises
download(t, ok) ==
    /\ pc[t] = "download"
    /\ IF ok
       THEN /\ DOWNLOAD_CACHE' = CacheSet(DOWNLOAD_CACHE, call[t].sound, tmp[t])
            /\ dlCount' = [dlCount EXCEPT ![call[t].sound] = @ + 1]
            /\ everCached' = everCached \cup {tmp[t]}
            /\ pc' = [pc EXCEPT ![t] = "lookup"]
            /\ UNCHANGED <<play, tmp, result, failures>>
       ELSE /\ Return(t, Raised(result[t], ExcDownload, <<>>))
            /\ failures' = Failed(failures, {[exc |-> ExcDownload, sound |-> call[t].sound,
                                          player |-> None, backend |-> None]})
            /\ UNCHANGED <<DOWNLOAD_CACHE, Downloads>>
    /\ UNCHANGED <<SYSTEM, PLAYSOUND_DEFAULT_BACKEND, disk, nextTmp, call, tasks,
                   ncalls, Teardown>>

\* _prepare_path, line 57 after a download: sound = _DOWNLOAD_CACHE[sound]
lookup(t) ==
    /\ pc[t] = "lookup"
    /\ \E started \in ThreadStarts : dispatch(t, CacheGet(DOWNLOAD_CACHE, call[t].sound), started)
    /\ UNCHANGED <<Globals, call, ncalls, Teardown, Downloads, failures>>

\* a caller that loses what the Player raised
played_Swallow(t, res, r, outcome) ==
    /\ Return(t, [res EXCEPT !.status = "returned", !.invoked = r.invoked,
                             !.outcome = outcome])
    /\ UNCHANGED <<failures, PLAYSOUND_DEFAULT_BACKEND>>

\* a caller that forgets the default backend when the Player fails, so that
\* the next call probes again
played_ForgetDefault(t, res, r, outcome) ==
    /\ Return(t, [res EXCEPT
                    !.status = IF r.exc = None THEN "returned" ELSE "raised",
                    !.exc = r.exc, !.invoked = r.invoked, !.outcome = outcome])
    /\ failures' = IF r.exc = None THEN failures
                   ELSE Failed(failures, {[exc |-> r.exc, sound |-> res.path,
                                        player |-> play[t],
                                        backend |-> call[t].backend]})
    /\ PLAYSOUND_DEFAULT_BACKEND' =
          IF r.exc = None THEN PLAYSOUND_DEFAULT_BACKEND ELSE None

\* playsound, line 29, when _play(path) comes back to the caller with r:
\* nothing catches what it raised, and playsound ends as the Player did
played(t, res, r, outcome) ==
    /\ Return(t, [res EXCEPT
                    !.status = IF r.exc = None THEN "returned" ELSE "raised",
                    !.exc = r.exc, !.invoked = r.invoked, !.outcome = outcome])
    /\ failures' = IF r.exc = None THEN failures
                   ELSE Failed(failures, {[exc |-> r.exc, sound |-> res.path,
                                        player |-> play[t],
                                        backend |-> call[t].backend]})
    /\ UNCHANGED PLAYSOUND_DEFAULT_BACKEND

\* playsound, lines 33-34: thread.start() returns and playsound returns the
\* Thread, whatever the Thread has done meanwhile
return_thread(t) ==
    /\ pc[t] = "started"
    /\ Return(t, [result[t] EXCEPT !.status = "returned"])
    /\ UNCHANGED <<Globals, call, tasks, ncalls, Teardown, Downloads, failures>>

\* playsound, line 29: _play(path) is called in the caller's thread and runs
\* until it waits for the playback, or ends before
play_blocking(t, outcome) ==
    /\ pc[t] = "play"
    /\ LET r == PlayerRun(play[t], result[t].path, outcome)
           res == [result[t] EXCEPT !.runs = @ + 1]
       IN
        IF r.waits
        THEN /\ pc' = [pc EXCEPT ![t] = "wait"]
             /\ result' = [result EXCEPT ![t] = [res EXCEPT !.invoked = r.launched]]
             /\ UNCHANGED <<play, tmp, failures, PLAYSOUND_DEFAULT_BACKEND>>
        ELSE played(t, res, r, outcome)
    /\ UNCHANGED <<SYSTEM, DOWNLOAD_CACHE, disk, nextTmp, call, tasks, ncalls,
                   Teardown, Downloads>>

\* playsound, line 29: the playback the caller's Player waits for ends
play_wait(t, outcome) ==
    /\ pc[t] = "wait"
    /\ LET r == PlayerRun(play[t], result[t].path, outcome) IN
        /\ r.waits
        /\ played(t, result[t], r, outcome)
    /\ UNCHANGED <<SYSTEM, DOWNLOAD_CACHE, disk, nextTmp, call, tasks, ncalls,
                   Teardown, Downloads>>

\* the Thread of line 32 calls _play(path), which runs until it waits for the
\* playback, or ends before
task_run(i, outcome) ==
    /\ i \in 1..Len(tasks)
    /\ tasks[i].status = "running"
    /\ tasks[i].runs = 0
    /\ LET r == PlayerRun(tasks[i].player, tasks[i].path, outcome) IN
        tasks' = IF r.waits
                 THEN [tasks EXCEPT ![i].runs = @ + 1, ![i].invoked = r.launched]
                 ELSE [tasks EXCEPT
                         ![i].status = IF r.exc = None THEN "returned" ELSE "raised",
                         ![i].exc = r.exc, ![i].invoked = r.invoked,
                         ![i].runs = @ + 1, ![i].outcome = outcome]
    /\ UNCHANGED <<Globals, pc, call, play, tmp, result, ncalls, Teardown, Downloads, failures>>

\* the playback the Thread's Player waits for ends, and with it the Thread
task_wait(i, outcome) ==
    /\ i \in 1..Len(tasks)
    /\ tasks[i].status = "running"
    /\ tasks[i].runs = 1
    /\ LET r == PlayerRun(tasks[i].player, tasks[i].path, outcome) IN
        /\ r.waits
        /\ tasks' = [tasks EXCEPT
                        ![i].status = IF r.exc = None THEN "returned" ELSE "raised",
                        ![i].exc = r.exc, ![i].invoked = r.invoked,
                        ![i].outcome = outcome]
    /\ UNCHANGED <<Globals, pc, call, play, tmp, result, ncalls, Teardown, Downloads, failures>>

\* the main thread ends and the interpreter begins to shut down: it waits for
\* the threads that are not daemon, then runs the at-exit hooks, on the main
\* thread.  A hook of the application may still call playsound
shutdown ==
    /\ ~finalizing
    /\ pc[MainThread] = "idle"
    /\ finalizing' = TRUE
    /\ UNCHANGED <<Globals, pc, call, play, tmp, result, tasks, ncalls, hook, exited,
                   rmLog, hookExc, Downloads, failures>>

\* atexit calls _remove_cached_downloads(_DOWNLOAD_CACHE), whose loop makes
\* its iterator over the live dict (line 194).  A call made by a daemon
\* thread may be in progress: the interpreter does not wait for these, and
\* they go on while the hook runs and after it.
at_exit ==
    /\ finalizing
    /\ ~exited
    /\ hook.i = 0
    /\ pc[MainThread] = "idle"
    /\ hook' = [i |-> 1, size |-> Len(DOWNLOAD_CACHE)]
    /\ UNCHANGED <<Globals, pc, call, play, tmp, result, tasks, ncalls, finalizing, exited,
                   rmLog, hookExc, Downloads, failures>>

\* one turn of the hook's loop, lines 194-195; fail: the host refuses to
\* delete the file
remove_turn(fail) ==
    /\ hook.i > 0
    /\ LET r == remove_next(DOWNLOAD_CACHE, disk, hook.i, hook.size, fail) IN
        /\ disk' = r.files
        /\ rmLog' = rmLog \o r.log
        /\ hookExc' = r.exc
        /\ exited' = r.done
        /\ hook' = IF r.done THEN NoHook ELSE [hook EXCEPT !.i = @ + 1]
    /\ UNCHANGED <<SYSTEM, PLAYSOUND_DEFAULT_BACKEND, DOWNLOAD_CACHE, nextTmp, pc, call,
                   play, tmp, result, tasks, ncalls, finalizing, Downloads, failures>>

\* the hosts a call may find when it probes: any; one where a tool that is
\* installed answers its version query; one whose three tools all do
ProbeEnvs == IF SYSTEM = "Linux" THEN Envs ELSE {NoEnv}
InstalledEnvs == IF SYSTEM = "Linux" THEN [ProbeTools -> {"ok", "absent"}] ELSE {NoEnv}
WorkingEnvs == IF SYSTEM = "Linux" THEN {[tl \in ProbeTools |-> "ok"]} ELSE {NoEnv}

\* the next step of thread t's call
Step(t, envs) ==
    \/ \E env \in envs : initialize(t, env)
    \/ probe(t)
    \/ resolve(t)
    \/ prepare(t)
    \/ \E ok \in BOOLEAN : download(t, ok)
    \/ lookup(t)
    \/ \E outcome \in PlayerOutcomes(play[t]) : play_blocking(t, outcome)
    \/ \E outcome \in PlayerOutcomes(play[t]) : play_wait(t, outcome)
    \/ return_thread(t)

\* the Threads that playsound started, and the end of the process
Environment ==
    \/ \E i \in 1..Len(tasks) :
          \E outcome \in PlayerOutcomes(tasks[i].player) : task_run(i, outcome)
    \/ \E i \in 1..Len(tasks) :
          \E outcome \in PlayerOutcomes(tasks[i].player) : task_wait(i, outcome)
    \/ shutdown
    \/ at_exit
    \/ \E fail \in BOOLEAN : remove_turn(fail)

\* the threads call playsound at the same time, each for a URL and with the
\* default backend, on a host whose tools work
Next ==
    \/ \E t \in Threads, url \in Urls, block \in BOOLEAN :
          playsound(t, url, block, None)
    \/ \E t \in Threads : Step(t, WorkingEnvs)
    \/ Environment

Spec == Init /\ [][Next]_vars

\* the calls do not overlap: the main thread makes them, one after the other

SeqNext ==
    \/ \E sound \in Sounds, block \in BOOLEAN, backend \in BackendArgs :
          playsound(MainThread, sound, block, backend)
    \/ Step(MainThread, ProbeEnvs)
    \/ Environment

SeqSpec == Init /\ [][SeqNext]_vars

\* the same calls on hosts where no version query exits non-zero
SeqInstalledNext ==
    \/ \E sound \in Sounds, block \in BOOLEAN, backend \in BackendArgs :
          playsound(MainThread, sound, block, backend)
    \/ Step(MainThread, InstalledEnvs)
    \/ Environment

SeqInstalledSpec == Init /\ [][SeqInstalledNext]_vars

\* calls for one URL and for the local files, on hosts where every tool that
\* is probed answers
SeqWorkingNext ==
    \/ \E sound \in Sounds \ {UrlB}, block \in BOOLEAN, backend \in BackendArgs :
          playsound(MainThread, sound, block, backend)
    \/ Step(MainThread, WorkingEnvs)
    \/ Environment

SeqWorkingSpec == Init /\ [][SeqWorkingNext]_vars

\* the same calls on hosts where every probed tool answers and on hosts that
\* have none of them
DeferEnvs == IF SYSTEM = "Linux" THEN {[tl \in ProbeTools |-> "ok"], NoEnv} ELSE {NoEnv}

SeqDeferNext ==
    \/ \E sound \in Sounds \ {UrlB}, block \in BOOLEAN, backend \in BackendArgs :
          playsound(MainThread, sound, block, backend)
    \/ Step(MainThread, DeferEnvs)
    \/ Environment

SeqDeferSpec == Init /\ [][SeqDeferNext]_vars

\* calls for one URL and for the local file that exists, on any host
SeqProbeNext ==
    \/ \E sound \in {UrlA, LocalOk}, block \in BOOLEAN, backend \in BackendArgs :
          playsound(MainThread, sound, block, backend)
    \/ Step(MainThread, ProbeEnvs)
    \/ Environment

SeqProbeSpec == Init /\ [][SeqProbeNext]_vars

\* calls for the sounds that exist, a .wav, a .mp3 and a .ogg, on a Linux host
\* that has aplay and neither gst-play-1.0 nor ffplay
AlsaEnvs == {[tl \in ProbeTools |-> IF tl = "aplay" THEN "ok" ELSE "absent"]}

SeqAlsaNext ==
    \/ \E sound \in Sounds \ {LocalMissing}, block \in BOOLEAN, backend \in BackendArgs :
          playsound(MainThread, sound, block, backend)
    \/ Step(MainThread, AlsaEnvs)
    \/ Environment

AlsaInit == Init /\ SYSTEM = "Linux"

SeqAlsaSpec == AlsaInit /\ [][SeqAlsaNext]_vars

\* ------------------------------------------------------------ the claims
ProbeOrder == <<"gst-play-1.0", "ffplay", "aplay">>

PlayerOfTool(tool) ==
    CASE tool = "gst-play-1.0" -> "_playsound_gst_play"
      [] tool = "ffplay" -> "_playsound_ffplay"
      [] tool = "aplay" -> "_playsound_alsa"

\* the place in ProbeOrder of the first tool of env that is there, 0 for none
FirstFound(env) ==
    IF \E i \in 1..Len(ProbeOrder) : env[ProbeOrder[i]] # "absent"
    THEN CHOOSE i \in 1..Len(ProbeOrder) :
            /\ env[ProbeOrder[i]] # "absent"
            /\ \A j \in 1..(i - 1) : env[ProbeOrder[j]] = "absent"
    ELSE 0

Finished(t) == result[t].status \in {"returned", "raised"}

\* the call of thread t ran _select_linux_backend
Probed(t) == SYSTEM = "Linux" /\ result[t].initialized

\* C1: with calls that do not overlap, a URL that is in the cache is never
\* downloaded again: no URL has more than one completed download, no download
\* is in progress for a cached URL, no stored path is ever replaced, and every
\* request for a cached URL resolves to the path the cache holds for it.
C1_CachedUrlReused ==
    /\ \A u \in Urls : dlCount[u] <= 1
    /\ Range(CacheValues(DOWNLOAD_CACHE)) = everCached
    /\ Cardinality(everCached) = Len(DOWNLOAD_CACHE)
    /\ \A t \in Threads :
        /\ pc[t] = "download" => ~CacheHas(DOWNLOAD_CACHE, call[t].sound)
        /\ (IsUrl(call[t].sound) /\ result[t].path # NoPath)
              => /\ CacheHas(DOWNLOAD_CACHE, call[t].sound)
                 /\ result[t].path = Absolute(CacheGet(DOWNLOAD_CACHE, call[t].sound))

\* a second request for a downloaded URL returned its cached path without a
\* download
C1_Witness ==
    \E t \in Threads :
        /\ IsUrl(call[t].sound)
        /\ result[t].status = "returned"
        /\ ~result[t].downloaded
        /\ dlCount[call[t].sound] = 1
        /\ result[t].path = Absolute(CacheGet(DOWNLOAD_CACHE, call[t].sound))

\* C2: under concurrent calls for the same uncached URL, the URL is
\* downloaded at most once and the path stored under it is never replaced.
C2_OneDownloadUnderConcurrency ==
    /\ \A u \in Urls : dlCount[u] <= 1
    /\ Range(CacheValues(DOWNLOAD_CACHE)) = everCached

\* the successful remove() calls on path p in the log of the at-exit hook
Removals(log, p) == Cardinality({i \in 1..Len(log) : log[i].path = p /\ log[i].ok})

\* C3: when the at-exit hook of a normal shutdown ends and every deletion
\* succeeded, every path that was ever a value of the download cache has
\* been deleted, exactly once.
C3_EveryCachedFileDeletedOnce ==
    [][(~exited /\ exited' /\ hookExc' = None)
          => \A p \in everCached' : p \notin disk' /\ Removals(rmLog', p) = 1]_vars

\* C4: when the at-exit hook ends it has attempted the deletion of every
\* cached path, also after the deletion of an earlier one failed.
C4_TeardownAttemptsEveryPath ==
    [][(~exited /\ exited')
          => \A p \in Range(CacheValues(DOWNLOAD_CACHE')) :
                \E i \in 1..Len(rmLog') : rmLog'[i].path = p]_vars

\* C5: a call whose backend name is not registered fails with Unknown
\* backend, its message listing the registered names, whatever the sound and
\* the host.
C5_UnknownBackendAlwaysReported ==
    \A t \in Threads :
        (Finished(t) /\ call[t].backend \notin (DOMAIN BACKEND_MAPPING \cup {None}))
            => /\ result[t].status = "raised"
               /\ result[t].exc = ExcUnknownBackend
               /\ result[t].names = AVAILABLE_BACKENDS

\* C6: a call with a registered backend name runs no default-backend
\* selection, never fails with No suitable audio backend, and uses the Player
\* registered under the name.
C6_ExplicitBackendNeverProbes ==
    \A t \in Threads :
        (Finished(t) /\ call[t].backend \in DOMAIN BACKEND_MAPPING)
            => /\ ~result[t].initialized
               /\ result[t].sel.probed = <<>>
               /\ result[t].exc # ExcNoBackend
               /\ result[t].player \in {None, BACKEND_MAPPING[call[t].backend]}

\* C7: with calls that do not overlap, once the default backend is set it
\* never changes and no call runs the selection again, and every call with
\* the backend omitted uses the stored default.
C7_DefaultSelectedOnce ==
    /\ [](\A t \in Threads :
            (call[t].backend = None /\ result[t].player # None)
                => result[t].player = PLAYSOUND_DEFAULT_BACKEND)
    /\ [][PLAYSOUND_DEFAULT_BACKEND # None
            => /\ PLAYSOUND_DEFAULT_BACKEND' = PLAYSOUND_DEFAULT_BACKEND
               /\ \A t \in Threads : result'[t].initialized => result[t].initialized]_vars

\* a call with the backend omitted, made after the selection, used the stored
\* default without selecting
C7_Witness ==
    \E t \in Threads :
        /\ call[t].backend = None
        /\ Finished(t)
        /\ ~result[t].initialized
        /\ result[t].player # None
        /\ result[t].player = PLAYSOUND_DEFAULT_BACKEND

\* C8: on a host that is neither Windows nor macOS the selection queries the
\* tools in the order gst-play-1.0, ffplay, aplay up to the first one that is
\* there and no further, and returns the Player of that tool when its query
\* succeeds; it returns no other Player.
C8_FirstFoundToolWins ==
    \A t \in Threads :
        Probed(t) =>
            LET sel == result[t].sel
                k == FirstFound(sel.env)
            IN  /\ sel.probed = SubSeq(ProbeOrder, 1, IF k = 0 THEN Len(ProbeOrder) ELSE k)
                /\ sel.ret # None => (k # 0 /\ sel.ret = PlayerOfTool(ProbeOrder[k]))
                /\ (k # 0 /\ sel.env[ProbeOrder[k]] = "ok")
                      => (sel.ret = PlayerOfTool(ProbeOrder[k]) /\ sel.exc = None)

\* with only ffplay installed the selection returned the ffplay Player and
\* never queried aplay
C8_Witness ==
    \E t \in Threads :
        /\ Probed(t)
        /\ result[t].sel.env = [NoEnv EXCEPT !["ffplay"] = "ok"]
        /\ result[t].sel.ret = "_playsound_ffplay"
        /\ result[t].sel.probed = <<"gst-play-1.0", "ffplay">>

\* C9: a tool whose version query is launched but exits non-zero is still
\* selected, and the selection returns.
C9_FailingVersionQueryStillSelected ==
    \A t \in Threads :
        Probed(t) =>
            LET sel == result[t].sel
                k == FirstFound(sel.env)
            IN  (k # 0 /\ sel.env[ProbeOrder[k]] = "nonzero")
                    => (sel.ret = PlayerOfTool(ProbeOrder[k]) /\ sel.exc = None)

\* C10: when the probe finds no tool the call fails with No suitable audio
\* backend after querying all three and the default stays unset; while it is
\* unset every call with the backend omitted probes again, and a probe that
\* finds a working tool sets the default.
C10_NoBackendNotCached ==
    \A t \in Threads :
        /\ (Probed(t) /\ result[t].sel.env = NoEnv)
              => /\ result[t].status = "raised"
                 /\ result[t].exc = ExcNoBackend
                 /\ result[t].sel.probed = ProbeOrder
                 /\ PLAYSOUND_DEFAULT_BACKEND = None
        /\ (call[t].backend = None /\ result[t].status # "none" /\ pc[t] \notin {"init", "probe"}
               /\ ~result[t].initialized)
              => PLAYSOUND_DEFAULT_BACKEND # None
        /\ (Probed(t) /\ FirstFound(result[t].sel.env) # 0
               /\ result[t].sel.env[ProbeOrder[FirstFound(result[t].sel.env)]] = "ok")
              => PLAYSOUND_DEFAULT_BACKEND = result[t].sel.ret

\* a call failed for want of a tool, and the next call probed again and
\* found one
C10_Witness ==
    \E t \in Threads :
        /\ [exc |-> ExcNoBackend, sound |-> NoPath, player |-> None, backend |-> None]
              \in failures.last
        /\ call[t].backend = None
        /\ Probed(t)
        /\ result[t].sel.exc = None
        /\ PLAYSOUND_DEFAULT_BACKEND = result[t].sel.ret
        /\ PLAYSOUND_DEFAULT_BACKEND # None

\* C11: a blocking call for a local file that exists starts no task; it has
\* not returned while the Player runs in the caller; once the Player has run
\* the call ended as the Player did: returned without error when the Player
\* raised nothing, raised with the Player's exception otherwise.
C11_BlockingRunsPlayerInCaller ==
    \A t \in Threads :
        (call[t].block /\ ~IsUrl(call[t].sound) /\ Exists(disk, call[t].sound)) =>
            /\ result[t].handle = 0
            /\ pc[t] = "play" => (result[t].status = "running" /\ result[t].runs = 0)
            /\ pc[t] = "wait" => (result[t].status = "running" /\ result[t].runs = 1)
            /\ result[t].status = "returned" => result[t].runs = 1
            /\ (result[t].runs = 1 /\ Finished(t)) =>
                  LET r == PlayerRun(result[t].player, result[t].path,
                                     result[t].outcome) IN
                    /\ result[t].exc = r.exc
                    /\ result[t].status = IF r.exc = None THEN "returned" ELSE "raised"

C11_Witness ==
    \E t \in Threads :
        /\ call[t].block /\ call[t].sound = LocalOk
        /\ result[t].runs = 1
        /\ result[t].status = "raised"
        /\ result[t].exc = ExcCalledProcess
        /\ result[t].outcome = "nonzero"

\* C12: a non-blocking call whose sound resolved starts exactly one new task,
\* which holds the call's Player and path and has not run yet, and from then
\* on the call can return at once, whatever the task is doing: it does not
\* wait for it.  The return changes no task and gives the handle of that
\* task; the caller ran no Player itself, and whatever the task's Player
\* raises, before or after the return, stays in the task: the call's own
\* result carries no exception.  (Violated: a call whose thread.start()
\* refuses the new thread ends with RuntimeError and has no task.)
C12_NonBlockingReturnsHandle ==
    /\ [](\A t \in Threads :
            /\ (~call[t].block /\ Finished(t) /\ result[t].path # NoPath) =>
                  /\ result[t].status = "returned"
                  /\ result[t].exc = None
                  /\ result[t].runs = 0
                  /\ result[t].handle \in 1..Len(tasks)
                  /\ tasks[result[t].handle].player = result[t].player
                  /\ tasks[result[t].handle].path = result[t].path
            /\ pc[t] = "started" =>
                  /\ ~call[t].block
                  /\ result[t].handle \in 1..Len(tasks)
                  /\ ENABLED return_thread(t))
    /\ [][\A t \in Threads :
            /\ (pc[t] # "started" /\ pc'[t] = "started") =>
                  /\ Len(tasks') = Len(tasks) + 1
                  /\ result'[t].handle = Len(tasks')
                  /\ tasks'[Len(tasks')].status = "running"
                  /\ tasks'[Len(tasks')].runs = 0
            /\ (~call[t].block /\ result[t].status = "running"
                   /\ result'[t].status = "returned") =>
                  /\ pc[t] = "started"
                  /\ tasks' = tasks
                  /\ result'[t].handle = result[t].handle]_vars

\* what a Player can raise
PlayerExcs == {ExcCalledProcess, ExcToolNotFound, ExcUnsupported, ExcGstLegacy,
               ExcValue, ExcImport}

\* what the call's run of _initialize_default_backend raised
SelectionExcs(t) ==
    IF result[t].initialized THEN {result[t].sel.exc} \ {None} ELSE {}

\* the backend argument is omitted or names a Player
Resolves(backend) == backend = None \/ backend \in DOMAIN BACKEND_MAPPING

\* C13 as stated: a non-blocking call never raises, whatever goes wrong: it
\* always returns a handle.
C13_NonBlockingNeverRaises ==
    \A t \in Threads :
        (~call[t].block /\ Finished(t)) =>
            /\ result[t].status = "returned"
            /\ result[t].handle \in 1..Len(tasks)

\* C13, amended: of a non-blocking call only the Player's failures are left to
\* the background task.  The call itself raises Unknown backend, a failed
\* selection of the default backend, File not found and a failed download,
\* before it has a Player, and, only once the interpreter shuts down, the
\* RuntimeError of a thread.start() that refuses the new thread; then it has
\* started no task.  Otherwise it returns a handle and no exception, and a
\* task never holds anything but what a Player raises.
C13_OnlyPlayerFailuresDeferred ==
    /\ \A t \in Threads :
          (~call[t].block /\ Finished(t)) =>
              IF result[t].status = "raised"
              THEN /\ result[t].handle = 0
                   /\ result[t].runs = 0
                   /\ result[t].exc \in {ExcUnknownBackend, ExcFileNotFound, ExcDownload,
                                          ExcThread} \cup SelectionExcs(t)
                   /\ result[t].exc # ExcThread => result[t].player = None
                   /\ result[t].exc = ExcThread =>
                         (finalizing /\ result[t].player # None)
              ELSE /\ result[t].handle \in 1..Len(tasks)
                   /\ result[t].exc = None
    /\ \A t \in Threads :
          (~call[t].block /\ Finished(t) /\ SelectionExcs(t) # {}) =>
              /\ result[t].status = "raised"
              /\ result[t].exc \in SelectionExcs(t)
              /\ (SYSTEM = "Linux" /\ result[t].sel.env = NoEnv)
                    => result[t].exc = ExcNoBackend
    /\ \A t \in Threads :
          (~call[t].block /\ Finished(t) /\ SelectionExcs(t) = {}) =>
              /\ ~Resolves(call[t].backend)
                    => result[t].exc = ExcUnknownBackend
              /\ (Resolves(call[t].backend)
                     /\ ~IsUrl(call[t].sound) /\ ~Exists(disk, call[t].sound))
                    => result[t].exc = ExcFileNotFound
              /\ (Resolves(call[t].backend)
                     /\ IsUrl(call[t].sound) /\ result[t].status = "raised")
                    => result[t].exc \in {ExcDownload, ExcFileNotFound, ExcThread}
    /\ \A i \in 1..Len(tasks) : tasks[i].exc \in PlayerExcs \cup {None}

C13_Witness ==
    \E t \in Threads :
        /\ ~call[t].block
        /\ call[t].sound = LocalMissing
        /\ result[t].status = "raised"
        /\ result[t].exc = ExcFileNotFound
        /\ result[t].handle = 0
        /\ tasks = <<>>

\* C14: a call for a local path that does not exist never gets to a Player:
\* it runs none, starts no task and no task holds its path; when its backend
\* is there (the name resolves and the selection of the default did not
\* fail) it ends with File not found, with block true as with block false.
C14_MissingFileNeverPlayed ==
    \A t \in Threads :
        (call[t].sound # NoPath /\ ~IsUrl(call[t].sound)
            /\ ~Exists(disk, call[t].sound)) =>
            /\ pc[t] \notin {"download", "lookup", "play", "wait", "started"}
            /\ result[t].runs = 0
            /\ result[t].handle = 0
            /\ result[t].player = None
            /\ result[t].invoked = <<>>
            /\ \A i \in 1..Len(tasks) : tasks[i].path # Absolute(call[t].sound)
            /\ (Finished(t) /\ Resolves(call[t].backend) /\ SelectionExcs(t) = {}) =>
                  /\ result[t].status = "raised"
                  /\ result[t].exc = ExcFileNotFound

C14_Witness ==
    \E t \in Threads :
        /\ call[t].sound = LocalMissing
        /\ call[t].block
        /\ call[t].backend = None
        /\ PLAYSOUND_DEFAULT_BACKEND # None
        /\ result[t].status = "raised"
        /\ result[t].exc = ExcFileNotFound
        /\ result[t].runs = 0

\* a run of the ALSA Player on path started exactly the tool of the suffix,
\* or none and raised for any other suffix
AlsaRouted(path, invoked, exc) ==
    CASE PathSuffix(path) = ".wav" -> invoked = <<"aplay">>
      [] PathSuffix(path) = ".mp3" -> invoked = <<"mpg123">>
      [] OTHER -> invoked = <<>> /\ exc = ExcUnsupported

\* C15: every run of the ALSA Player, in the caller or in a task, started only
\* aplay for a .wav path, only mpg123 for a .mp3 path, and for any other
\* suffix started no process and raised the unsupported-format error.
C15_AlsaRoutesBySuffix ==
    /\ \A t \in Threads :
          (result[t].player = "_playsound_alsa" /\ result[t].runs = 1) =>
              AlsaRouted(result[t].path, result[t].invoked, result[t].exc)
    /\ \A i \in 1..Len(tasks) :
          (tasks[i].player = "_playsound_alsa" /\ tasks[i].runs = 1) =>
              AlsaRouted(tasks[i].path, tasks[i].invoked, tasks[i].exc)

C15_Witness ==
    \E t \in Threads :
        /\ result[t].player = "_playsound_alsa"
        /\ result[t].runs = 1
        /\ PathSuffix(result[t].path) = ".mp3"
        /\ result[t].invoked = <<"mpg123">>
        /\ result[t].status = "returned"

\* C16: whenever a Player's invocation failed (its process exited non-zero or
\* could not be launched, its library could not be loaded or, for the
\* Windows Player, an MCI command returned an error code), the run of the
\* Player ended with an exception: no run reports success after a failure.
C16_FailedPlayerSignalsFailure ==
    /\ \A t \in Threads :
          (result[t].runs = 1 /\ result[t].outcome \notin {None, "ok"}) =>
              /\ result[t].status = "raised"
              /\ result[t].exc \in PlayerExcs
    /\ \A i \in 1..Len(tasks) :
          (tasks[i].runs = 1 /\ tasks[i].outcome \notin {None, "ok"}) =>
              /\ tasks[i].status = "raised"
              /\ tasks[i].exc \in PlayerExcs

\* the temporary files of URL downloads that are on the host
TempFiles(files) == {p \in files : p.root = "/tmp/" /\ p.stem = "playsound3-"}

\* C17: when the at-exit hook of a normal shutdown has run to its end, no
\* temporary file created for a URL download is left on the host, whatever
\* calls were made before and whether their downloads failed or not.
C17_NoTempFileAfterExit ==
    [][(~exited /\ exited' /\ hookExc' = None) => TempFiles(disk') = {}]_vars

\* C18: a call that got to playback runs its Player once and no other one: a
\* caller or a task never runs _play twice, a finished one ran it once.  The
\* step at which a Player fails, in the caller or in a task, ends the call or
\* the task there, probes nothing and leaves the stored default as it was;
\* so a default Player that failed at playback is still the default, and a
\* call without a backend argument gets the stored default.
C18_NoRetryNoFallback ==
    /\ [](/\ \A t \in Threads :
              /\ result[t].runs <= 1
              /\ (call[t].block /\ Finished(t) /\ result[t].player # None)
                    => result[t].runs = 1
              /\ (call[t].backend = None /\ result[t].player # None)
                    => result[t].player = PLAYSOUND_DEFAULT_BACKEND
           /\ \A i \in 1..Len(tasks) :
              /\ tasks[i].runs <= 1
              /\ tasks[i].status # "running" => tasks[i].runs = 1
           /\ \A f \in failures.last \cup failures.now :
              (f.player # None /\ f.backend = None)
                    => f.player = PLAYSOUND_DEFAULT_BACKEND)
    /\ [][\A t \in Threads :
            (pc[t] \in {"play", "wait"} /\ result'[t].status = "raised") =>
                /\ pc'[t] = "idle"
                /\ result'[t].runs = 1
                /\ result'[t].player = result[t].player
                /\ result'[t].sel = result[t].sel
                /\ PLAYSOUND_DEFAULT_BACKEND' = PLAYSOUND_DEFAULT_BACKEND]_vars
    /\ [][\A i \in 1..Len(tasks) :
            (tasks[i].status = "running" /\ tasks'[i].status = "raised") =>
                /\ tasks'[i].player = tasks[i].player
                /\ PLAYSOUND_DEFAULT_BACKEND' = PLAYSOUND_DEFAULT_BACKEND]_vars

C18_Witness ==
    \E t \in Threads :
        /\ ncalls = 2
        /\ \E f \in failures.last :
              /\ f.backend = None
              /\ f.player = PLAYSOUND_DEFAULT_BACKEND
              /\ f.exc = ExcCalledProcess
        /\ call[t].backend = None
        /\ ~result[t].initialized
        /\ result[t].player = PLAYSOUND_DEFAULT_BACKEND
        /\ result[t].runs = 1
        /\ result[t].status = "returned"

\* C19: only a call whose backend name is not registered ends with Unknown
\* backend, and such a call never gets to _prepare_path: it starts no
\* download, creates no temporary file, resolves no path, has no Player and
\* no task; while it runs, the download cache, the files of the host and the
\* number of tasks stay as they were.
C19_UnknownBackendTouchesNothing ==
    /\ [](\A t \in Threads :
            /\ (Finished(t) /\ result[t].exc = ExcUnknownBackend)
                  => ~Resolves(call[t].backend)
            /\ ~Resolves(call[t].backend) =>
                  /\ pc[t] \in {"idle", "init", "probe", "resolve"}
                  /\ ~result[t].downloaded
                  /\ tmp[t] = NoPath
                  /\ result[t].path = NoPath
                  /\ result[t].player = None
                  /\ result[t].runs = 0
                  /\ result[t].handle = 0)
    /\ [][\A t \in Threads :
            (~Resolves(call[t].backend) /\ pc[t] # "idle") =>
                /\ DOWNLOAD_CACHE' = DOWNLOAD_CACHE
                /\ disk' = disk
                /\ nextTmp' = nextTmp
                /\ dlCount' = dlCount
                /\ Len(tasks') = Len(tasks)]_vars

C19_Witness ==
    \E t \in Threads :
        /\ call[t].sound \in Urls
        /\ ~CacheHas(DOWNLOAD_CACHE, call[t].sound)
        /\ result[t].status = "raised"
        /\ result[t].exc = ExcUnknownBackend
        /\ ~result[t].downloaded
        /\ TempFiles(disk) = {}
        /\ tasks = <<>>

\* C20: the step at which the download of a URL fails ends the call with the
\* download's exception and leaves the cache, the download counts and the
\* tasks as they were; the failed call has no cache entry for its URL, no
\* path, no Player and no task.  Nothing remembers the failure: every call
\* for a URL that is not cached, once past the cache test, is downloading.
C20_FailedDownloadNotCached ==
    /\ [](\A t \in Threads :
            /\ (Finished(t) /\ result[t].exc = ExcDownload) =>
                  /\ result[t].status = "raised"
                  /\ IsUrl(call[t].sound)
                  /\ ~CacheHas(DOWNLOAD_CACHE, call[t].sound)
                  /\ result[t].downloaded
                  /\ result[t].path = NoPath
                  /\ result[t].player = None
                  /\ result[t].runs = 0
                  /\ result[t].handle = 0
            /\ (IsUrl(call[t].sound) /\ ~CacheHas(DOWNLOAD_CACHE, call[t].sound)
                   /\ pc[t] \notin {"idle", "init", "probe", "resolve", "prepare"}) =>
                  /\ pc[t] = "download"
                  /\ result[t].downloaded)
    /\ [][\A t \in Threads :
            (pc[t] = "download" /\ result'[t].status = "raised") =>
                /\ result'[t].exc = ExcDownload
                /\ DOWNLOAD_CACHE' = DOWNLOAD_CACHE
                /\ dlCount' = dlCount
                /\ tasks' = tasks]_vars

C20_Witness ==
    \E t \in Threads :
        /\ ncalls = 2
        /\ [exc |-> ExcDownload, sound |-> call[t].sound, player |-> None,
            backend |-> None] \in failures.last
        /\ result[t].downloaded
        /\ CacheHas(DOWNLOAD_CACHE, call[t].sound)
        /\ dlCount[call[t].sound] = 1
        /\ nextTmp = 2
====
